---- MODULE Spec2Model ----
(***************************************************************************)
(* Carol: the request-template / group-template engine of                  *)
(* src/api/shared/RestApiTypes.ts and utils/TypeUtils.ts.                   *)
(*                                                                         *)
(* The repository computes the argument schema of a command with           *)
(* TypeScript type-level functions.  A type is modelled by the value it    *)
(* denotes: a string literal type is a string, a union is a set, a tuple   *)
(* is a sequence, `never` is the empty set and `unknown` is Unknown.  Each *)
(* type alias is an operator that computes what the compiler computes when *)
(* the alias is instantiated.                                              *)
(*                                                                         *)
(* A string is a sequence of one-character strings, so that the scan for   *)
(* the delimiters is a computation on positions.                           *)
(***************************************************************************)
EXTENDS Integers, Sequences, FiniteSets, TLC

VARIABLES
    templates,       \* the registered command templates, by command name
    groupTemplates,  \* the registered group templates, by group name
    frozen,          \* the registry is closed for registration
    call,            \* the last operation and its outcome
    earlier,         \* history: one earlier composeRequest call, its outcome
                     \* and the number of calls made since
    running          \* the calls in flight: each caller's position and
                     \* request, and the storage each call works in

vars == <<templates, groupTemplates, frozen, call, earlier, running>>

-----------------------------------------------------------------------------
(* Values of template objects.                                             *)

\* a string literal
Str(s) == [t |-> "str", s |-> s]
\* a literal of another primitive type (true, 3, ...)
Prim == [t |-> "prim"]
\* an object literal; f maps its keys to values
Obj(f) == [t |-> "obj", f |-> f]
\* a tuple of strings; ro: the tuple is readonly (made by `as const`)
Arr(a, ro) == [t |-> "arr", a |-> a, ro |-> ro]
\* the type `unknown`
Unknown == [t |-> "unknown"]
\* marks a key that an object does not have (never a value of an object)
Absent == [t |-> "absent"]

\* the object with the keys and values of `pairs`, a set of <<key, value>>;
\* a pair whose value is Absent adds no key
MkObj(pairs) ==
    LET present == {p \in pairs : p[2] # Absent}
    IN  Obj([k \in {p[1] : p \in present} |->
                (CHOOSE p \in present : p[1] = k)[2]])

Keys(o) == DOMAIN o.f

\* T[k] of an instantiated indexed access: the property's type, and
\* `unknown` when T has no such property
Prop(T, k) == IF T.t = "obj" /\ k \in Keys(T) THEN T.f[k] ELSE Unknown

Range(a) == {a[i] : i \in DOMAIN a}

-----------------------------------------------------------------------------
(* TypeUtils.ts                                                            *)

REST_API_TEMPLATE_GROUPS_KEY == "GROUPS"
REST_API_TEMPLATE_DEFAULT_GROUP == "DEFAULT"

\* the delimiters RestApiTypes.ts passes to the extractors
SD == "{"
ED == "}"

\* T extends AnyObject: object literals do, strings, primitives, tuples
\* and `unknown` do not
ExtendsAnyObject(v) == v.t = "obj"

\* T extends Primitive
ExtendsPrimitive(v) == v.t \in {"str", "prim"}

\* AsAnyObject<T>, distributed over the union U
AsAnyObject(U) == {v \in U : ExtendsAnyObject(v)}

\* ArrayToUnion<A> = A[number]
ArrayToUnion(A) == Range(A)

\* RemoveLeading<T, 1>
RemoveLeading(T) == Tail(T)

\* the depth limit SubstringsFromObject passes to IsRecursionLimitExceeded
RecursionLimit == 5

\* IsRecursionLimitExceeded stopping one level late
IsRecursionLimitExceeded_OneLate(A, N) == Len(A) = N + 1

\* IsRecursionLimitExceeded stopping one level early
IsRecursionLimitExceeded_OneEarly(A, N) == Len(A) >= N - 1

\* IsRecursionLimitExceeded<A, N>: A["length"] extends N
IsRecursionLimitExceeded(A, N) == Len(A) = N

\* String.indexOf(c, from) on 1-based positions; 0 when there is none
IndexOf(s, c, from) ==
    LET hits == {i \in from..Len(s) : s[i] = c}
    IN  IF hits = {} THEN 0 ELSE CHOOSE i \in hits : \A j \in hits : i <= j

\* SubstringsFromString<S, SD, ED, A> for one string S:
\* S extends `${infer L}${SD}${infer I}${ED}${infer R}` infers L up to the
\* first SD and I up to the first ED after it, then recurs on `${L}${R}`
\* with I appended to A; without a match the result is never for an empty
\* A and the union of A otherwise
\* SubstringsFromString1 taking the end of the string for a missing "}"
RECURSIVE SubstringsFromString1_UnterminatedToo(_, _)
SubstringsFromString1_UnterminatedToo(S, A) ==
    LET p == IndexOf(S, SD, 1)
        e == IF p = 0 THEN 0 ELSE IndexOf(S, ED, p + 1)
        q == IF p # 0 /\ e = 0 THEN Len(S) + 1 ELSE e
    IN  IF p # 0
        THEN SubstringsFromString1_UnterminatedToo(
                 SubSeq(S, 1, p - 1) \o SubSeq(S, q + 1, Len(S)),
                 Append(A, SubSeq(S, p + 1, q - 1)))
        ELSE IF Len(A) = 0 THEN {} ELSE ArrayToUnion(A)

\* SubstringsFromString1 stopping at the first placeholder
SubstringsFromString1_FirstOnly(S, A) ==
    LET p == IndexOf(S, SD, 1)
        q == IF p = 0 THEN 0 ELSE IndexOf(S, ED, p + 1)
    IN  IF p # 0 /\ q # 0 THEN {SubSeq(S, p + 1, q - 1)} ELSE {}

\* SubstringsFromString pairing a "}" with the nearest "{" before it
RECURSIVE SubstringsFromString1_Innermost(_, _)
SubstringsFromString1_Innermost(S, A) ==
    LET first == IndexOf(S, SD, 1)
        q == IF first = 0 THEN 0 ELSE IndexOf(S, ED, first + 1)
        p == IF q = 0 THEN 0
             ELSE CHOOSE i \in 1..(q - 1) :
                      /\ S[i] = SD
                      /\ \A j \in (i + 1)..(q - 1) : S[j] # SD
    IN  IF p # 0 /\ q # 0
        THEN SubstringsFromString1_Innermost(
                 SubSeq(S, 1, p - 1) \o SubSeq(S, q + 1, Len(S)),
                 Append(A, SubSeq(S, p + 1, q - 1)))
        ELSE IF Len(A) = 0 THEN {} ELSE ArrayToUnion(A)

RECURSIVE SubstringsFromString1(_, _)
SubstringsFromString1(S, A) ==
    LET p == IndexOf(S, SD, 1)
        q == IF p = 0 THEN 0 ELSE IndexOf(S, ED, p + 1)
    IN  IF p # 0 /\ q # 0
        THEN SubstringsFromString1(
                 SubSeq(S, 1, p - 1) \o SubSeq(S, q + 1, Len(S)),
                 Append(A, SubSeq(S, p + 1, q - 1)))
        ELSE IF Len(A) = 0 THEN {} ELSE ArrayToUnion(A)

\* SubstringsFromString<S, "{", "}">: S is a naked type parameter of a
\* conditional type, so the alias distributes over a union of strings
SubstringsFromString(U) == UNION {SubstringsFromString1(S, <<>>) : S \in U}

\* SubstringsFromObject<T, "{", "}", A>
RECURSIVE SubstringsFromObject(_, _)
SubstringsFromObject(T, A) ==
    UNION { IF IsRecursionLimitExceeded(A, RecursionLimit) THEN {}
            ELSE IF T.f[k].t = "str" THEN SubstringsFromString({T.f[k].s})
            ELSE IF ExtendsAnyObject(T.f[k])
                 THEN SubstringsFromObject(T.f[k], Append(A, T.f[k]))
            ELSE {}
          : k \in Keys(T) }

\* IsKeyPathValid<T, KP>
RECURSIVE IsKeyPathValid(_, _)
IsKeyPathValid(T, KP) ==
    IF Len(KP) = 1
    THEN ExtendsAnyObject(Prop(T, KP[1])) \/ ExtendsPrimitive(Prop(T, KP[1]))
    ELSE IF ExtendsAnyObject(Prop(T, KP[1]))
         THEN IsKeyPathValid(Prop(T, KP[1]), RemoveLeading(KP))
         ELSE FALSE

\* ValueAtKeyPath<T, KP>
RECURSIVE ValueAtKeyPath(_, _)
ValueAtKeyPath(T, KP) ==
    IF Len(KP) = 1 THEN Prop(T, KP[1])
    ELSE ValueAtKeyPath(Prop(T, KP[1]), RemoveLeading(KP))

\* KeyPathsOfStringValues<T, A>
RECURSIVE KeyPathsOfStringValues(_, _)
KeyPathsOfStringValues(T, A) ==
    UNION { IF T.f[k].t = "str" THEN {Append(A, k)}
            ELSE IF ExtendsAnyObject(T.f[k])
                 THEN KeyPathsOfStringValues(T.f[k], Append(A, k))
            ELSE {}
          : k \in Keys(T) }

-----------------------------------------------------------------------------
(* RestApiTypes.ts                                                         *)

\* Template["GROUPS"] extends string[]: a readonly tuple does not
ExtendsStringArray(v) == v.t = "arr" /\ ~v.ro

\* ExtractGroupNames with the else branch returning the empty tuple
ExtractGroupNames_NoDefault(Template) ==
    IF ExtendsStringArray(Prop(Template, REST_API_TEMPLATE_GROUPS_KEY))
    THEN Prop(Template, REST_API_TEMPLATE_GROUPS_KEY).a
             \o <<REST_API_TEMPLATE_DEFAULT_GROUP>>
    ELSE <<>>

\* ExtractGroupNames with the spread taken in reverse
ExtractGroupNames_Reversed(Template) ==
    IF ExtendsStringArray(Prop(Template, REST_API_TEMPLATE_GROUPS_KEY))
    THEN LET a == Prop(Template, REST_API_TEMPLATE_GROUPS_KEY).a
         IN  [i \in 1..Len(a) |-> a[Len(a) + 1 - i]]
                 \o <<REST_API_TEMPLATE_DEFAULT_GROUP>>
    ELSE <<REST_API_TEMPLATE_DEFAULT_GROUP>>

\* ExtractGroupNames with DEFAULT put before the spread
ExtractGroupNames_DefaultFirst(Template) ==
    IF ExtendsStringArray(Prop(Template, REST_API_TEMPLATE_GROUPS_KEY))
    THEN <<REST_API_TEMPLATE_DEFAULT_GROUP>>
             \o Prop(Template, REST_API_TEMPLATE_GROUPS_KEY).a
    ELSE <<REST_API_TEMPLATE_DEFAULT_GROUP>>

\* ExtractGroupNames<Template>
ExtractGroupNames(Template) ==
    IF ExtendsStringArray(Prop(Template, REST_API_TEMPLATE_GROUPS_KEY))
    THEN Prop(Template, REST_API_TEMPLATE_GROUPS_KEY).a
             \o <<REST_API_TEMPLATE_DEFAULT_GROUP>>
    ELSE <<REST_API_TEMPLATE_DEFAULT_GROUP>>

\* ExtractGroupTemplatesMatchingNames taking every group template, named by
\* the template or not
ExtractGroupTemplatesMatchingNames_All(GroupTemplates, Template) ==
    {GroupTemplates[n] : n \in DOMAIN GroupTemplates}

\* ExtractGroupTemplatesMatchingNames<GroupTemplates, Template>:
\* GroupTemplates[N1 | N2 | ...] is the union of the named properties, and
\* `unknown` as soon as one of the names is no property of GroupTemplates
ExtractGroupTemplatesMatchingNames(GroupTemplates, Template) ==
    LET names == ArrayToUnion(ExtractGroupNames(Template))
    IN  IF names \subseteq DOMAIN GroupTemplates
        THEN {GroupTemplates[n] : n \in names}
        ELSE {Unknown}

\* keyof (G1 | G2 | ...) = keyof G1 & keyof G2 & ...
KeyofUnion(U) == {k \in UNION {Keys(g) : g \in U} : \A g \in U : k \in Keys(g)}

\* ExtractStringValuesFromGroupTemplate without the IsKeyPathValid test
RECURSIVE ExtractStringValuesFromGroupTemplate_NoOverride(_, _, _)
ExtractStringValuesFromGroupTemplate_NoOverride(U, Template, A) ==
    UNION { IF g.f[k].t = "str" THEN {g.f[k].s}
            ELSE IF ExtendsAnyObject(g.f[k])
                 THEN ExtractStringValuesFromGroupTemplate_NoOverride(
                          {g.f[k]}, Template, Append(A, k))
            ELSE {}
          : g \in U, k \in KeyofUnion(U) }

\* ExtractStringValuesFromGroupTemplate<GroupTemplate, Template, A>, with
\* GroupTemplate the union U: the mapped type distributes over U and
\* UnionOfValues indexes the union of the mapped types with its keyof
RECURSIVE ExtractStringValuesFromGroupTemplate(_, _, _)
ExtractStringValuesFromGroupTemplate(U, Template, A) ==
    UNION { IF g.f[k].t = "str"
            THEN IF IsKeyPathValid(Template, Append(A, k))
                 THEN {} ELSE {g.f[k].s}
            ELSE IF ExtendsAnyObject(g.f[k])
                 THEN ExtractStringValuesFromGroupTemplate(
                          {g.f[k]}, Template, Append(A, k))
            ELSE {}
          : g \in U, k \in KeyofUnion(U) }

\* ExtractTemplateVars<Template>
ExtractTemplateVars(Template) == SubstringsFromObject(Template, <<>>)

\* ExtractGroupVars<GroupTemplates, Template>
ExtractGroupVars(GroupTemplates, Template) ==
    SubstringsFromString(
        ExtractStringValuesFromGroupTemplate(
            AsAnyObject(
                ExtractGroupTemplatesMatchingNames(GroupTemplates, Template)),
            Template, <<>>))

\* RestApiPerformFuncParams<Templates, GroupTemplates>: the member of the
\* union for RequestType; args holds the keys of Args, and hasArgs tells
\* whether the member has an `args` property
RestApiPerformFuncParams(Templates, GroupTemplates, RequestType) ==
    LET Args == ExtractTemplateVars(Templates[RequestType])
                  \cup ExtractGroupVars(GroupTemplates, Templates[RequestType])
    IN  [command |-> RequestType, hasArgs |-> Args # {}, args |-> Args]

-----------------------------------------------------------------------------
(* Inputs.  The templates are the static tables of the repository          *)
(* (TeslaApiRequestTemplates, TeslaApiRequestGroupTemplates); the model    *)
(* draws them from bounded sets.                                           *)

\* the longest GROUPS tuple drawn
MaxGroups == 2

GroupNameSet == {"DEFAULT", "AUTH", "OAUTH"}

GroupsTuples == UNION {[1..n -> GroupNameSet] : n \in 0..MaxGroups}

\* the GROUPS property of a template: none, a tuple, a readonly tuple
GroupsValues == {Absent} \cup {Arr(a, ro) : a \in GroupsTuples, ro \in BOOLEAN}

\* the group template registered under a name in the group-name runs
SampleGroup(n) ==
    IF n = "DEFAULT" THEN Obj("METHOD" :> Str(<<"G">>))
    ELSE IF n = "AUTH" THEN Obj("AUTH" :> Prim)
    ELSE Obj("ACCESS_TOKEN" :> Str(<<"{", "o", "}">>))

NamesTemplates ==
    {MkObj({<<"GROUPS", g>>, <<"URI", Str(<<"s">>)>>}) : g \in GroupsValues}

NamesGroupTemplates ==
    {[n \in R |-> SampleGroup(n)] : R \in SUBSET GroupNameSet}

-----------------------------------------------------------------------------
(* Group resolution: ExtractGroupNames and                                 *)
(* ExtractGroupTemplatesMatchingNames applied to a template.               *)

InitNames ==
    /\ templates \in {[c \in {"C1"} |-> t] : t \in NamesTemplates}
    /\ groupTemplates \in NamesGroupTemplates
    /\ frozen = TRUE
    /\ call = [op |-> "none"]
    /\ earlier = [set |-> FALSE]
    /\ running = <<>>

ResolveGroupNames(c) ==
    /\ call' = [op |-> "resolveGroupNames", command |-> c,
                names |-> ExtractGroupNames(templates[c]),
                matched |-> ExtractGroupTemplatesMatchingNames(
                                groupTemplates, templates[c])]
    /\ UNCHANGED <<templates, groupTemplates, frozen, earlier, running>>

NextNames == \E c \in DOMAIN templates : ResolveGroupNames(c)

SpecNames == InitNames /\ [][NextNames]_vars

\* the number of positions of the sequence a that hold x
Count(a, x) == Cardinality({i \in DOMAIN a : a[i] = x})

\* the GROUPS tuple the template of the last call declares, <<>> if none
DeclaredGroups ==
    LET g == Prop(templates[call.command], "GROUPS")
    IN  IF g.t = "arr" THEN g.a ELSE <<>>

\* the declared GROUPS tuple that ExtractGroupNames reads, which is the
\* declared tuple unless that is readonly
ReadGroups ==
    LET g == Prop(templates[call.command], "GROUPS")
    IN  IF g.t = "arr" /\ ~g.ro THEN g.a ELSE <<>>

Resolved == call.op = "resolveGroupNames"

-----------------------------------------------------------------------------
(* The argument schema: RestApiPerformFuncParams applied to a command.     *)

\* the deepest string leaf drawn for a template (its key-path length)
MaxDepth == 6

\* leaf nested so that its key-path has length d: {N: {N: ... leaf}}
RECURSIVE Chain(_, _)
Chain(d, leaf) == IF d = 0 THEN leaf ELSE Obj("N" :> Chain(d - 1, leaf))

\* OPTS is a vendor-specific key: its value may be a scalar or an object
\* (HEADERS is an object in every template, by HttpRequestHeaders)
SchemaTemplates ==
    {MkObj({<<"GROUPS", g>>, <<"URI", u>>, <<"OPTS", h>>, <<"N", n>>})
       : g \in {Absent, Arr(<<>>, FALSE), Arr(<<"AUTH">>, FALSE),
                Arr(<<"AUTH">>, TRUE)},
         u \in {Absent, Str(<<"s">>),
                Str(<<"a", "{", "x", "}", "b", "{", "y", "}">>)},
         h \in {Absent, Prim, Obj("K" :> Str(<<"f">>)),
                Obj("K" :> Str(<<"{", "x", "}">>)),
                Obj("L" :> Str(<<"{", "z", "}">>))},
         n \in {Absent} \cup
               {Chain(d - 1, Str(<<"{", "d", "}">>))
                  : d \in (RecursionLimit - 1)..MaxDepth}}

SchemaGroups ==
    {MkObj({<<"URI", u>>, <<"OPTS", h>>, <<"NOTE", n>>})
       : u \in {Absent, Str(<<"{", "u", "}">>)},
         h \in {Absent, Str(<<"{", "h", "}">>),
                Obj("K" :> Str(<<"{", "k", "}">>)),
                Obj("K" :> Str(<<"{", "k", "}">>)
                      @@ "L" :> Str(<<"{", "l", "}">>))},
         n \in {Absent, Str(<<"n", "{", "n", "}">>)}}

SchemaGroupTemplates ==
    {MkObj({<<"DEFAULT", d>>, <<"AUTH", a>>}).f
       : d \in {Absent} \cup SchemaGroups, a \in {Absent} \cup SchemaGroups}

InitSchema ==
    /\ templates \in {[c \in {"C1"} |-> t] : t \in SchemaTemplates}
    /\ groupTemplates \in SchemaGroupTemplates
    /\ frozen = TRUE
    /\ call = [op |-> "none"]
    /\ earlier = [set |-> FALSE]
    /\ running = <<>>

GetArgumentSchema(c) ==
    LET params == RestApiPerformFuncParams(templates, groupTemplates, c)
    IN  /\ call' = [op |-> "getArgumentSchema", command |-> c,
                    hasArgs |-> params.hasArgs, args |-> params.args]
        /\ UNCHANGED <<templates, groupTemplates, frozen, earlier, running>>

NextSchema == \E c \in DOMAIN templates : GetArgumentSchema(c)

SpecSchema == InitSchema /\ [][NextSchema]_vars

\* position i of s opens a placeholder: it holds "{", a "}" follows it, and
\* every "{" before it is closed by a "}" before i
OpensPlaceholder(s, i) ==
    /\ s[i] = "{"
    /\ \E j \in (i + 1)..Len(s) : s[j] = "}"
    /\ \A k \in 1..(i - 1) :
           s[k] = "{" => \E m \in (k + 1)..(i - 1) : s[m] = "}"

\* the variables of the placeholders of s: the text from an opening "{" to
\* the first "}" after it
PlaceholderVars(s) ==
    {SubSeq(s, i + 1, j - 1) :
        <<i, j>> \in {ij \in (1..Len(s)) \X (1..Len(s)) :
                        /\ OpensPlaceholder(s, ij[1])
                        /\ ij[1] < ij[2]
                        /\ s[ij[2]] = "}"
                        /\ \A m \in (ij[1] + 1)..(ij[2] - 1) : s[m] # "}"}}

\* the variables in the string leaves of the object o whose key-path is in P
LeafVars(o, P) ==
    UNION {PlaceholderVars(ValueAtKeyPath(o, p).s)
             : p \in KeyPathsOfStringValues(o, <<>>) \cap P}

\* the key-path p exists on the object o
KeyPathExists(o, p) == ValueAtKeyPath(o, p).t \in {"str", "prim", "obj", "arr"}

\* the names of the groups that can apply to the template T: the declared
\* ones and DEFAULT, as far as they are registered
ApplicableGroups(T) ==
    LET g == Prop(T, "GROUPS")
    IN  ((IF g.t = "arr" THEN Range(g.a) ELSE {}) \cup {"DEFAULT"})
            \cap DOMAIN groupTemplates

SchemaTaken == call.op = "getArgumentSchema"

\* C1: every variable of the schema of a command comes from a string leaf
\* of the command template or from a string leaf of an applicable group
\* template whose key-path does not exist on the command template; a
\* variable found only in overridden group leaves is not in the schema.
C1_NoOverriddenGroupVar ==
    SchemaTaken =>
        LET T == templates[call.command]
        IN  \A v \in call.args :
              \/ v \in LeafVars(T, KeyPathsOfStringValues(T, <<>>))
              \/ \E n \in ApplicableGroups(T) :
                    v \in LeafVars(groupTemplates[n],
                             {p \in KeyPathsOfStringValues(
                                        groupTemplates[n], <<>>)
                                : ~KeyPathExists(T, p)})

\* C1 witness: the only applicable group has a placeholder at a key-path
\* the command template overrides, and another one that reaches the schema
C1_Witness ==
    /\ SchemaTaken
    /\ Prop(templates[call.command], "OPTS") = Obj("K" :> Str(<<"f">>))
    /\ DOMAIN groupTemplates = {"DEFAULT"}
    /\ groupTemplates["DEFAULT"] =
           Obj("OPTS" :> Obj("K" :> Str(<<"{", "k", "}">>)
                                  @@ "L" :> Str(<<"{", "l", "}">>)))
    /\ <<"l">> \in call.args
    /\ <<"k">> \notin call.args

\* the key-paths of at most n keys
WithinDepth(o, n) == {p \in KeyPathsOfStringValues(o, <<>>) : Len(p) <= n}

\* C2 as stated: the schema holds every variable of every string leaf of
\* the command template.
C2_AllOwnVars ==
    SchemaTaken =>
        LET T == templates[call.command]
        IN  LeafVars(T, KeyPathsOfStringValues(T, <<>>)) \subseteq call.args

\* C2 (amended): the schema holds every variable of every string leaf of
\* the command template that at most RecursionLimit objects enclose,
\* whatever groups are registered and applied.
C2_OwnVarsWithinDepth ==
    SchemaTaken =>
        LET T == templates[call.command]
        IN  LeafVars(T, WithinDepth(T, RecursionLimit)) \subseteq call.args

\* C2 witness: own variables at depth 1 and at depth RecursionLimit are in
\* the schema while a group that sets the same key is applied
C2_Witness ==
    /\ SchemaTaken
    /\ LET T == templates[call.command]
       IN  /\ Prop(T, "URI") = Str(<<"a", "{", "x", "}", "b", "{", "y", "}">>)
           /\ Prop(T, "N") = Chain(RecursionLimit - 1, Str(<<"{", "d", "}">>))
    /\ "DEFAULT" \in DOMAIN groupTemplates
    /\ "URI" \in Keys(groupTemplates["DEFAULT"])
    /\ {<<"x">>, <<"y">>, <<"d">>} \subseteq call.args

\* the sequence a without the elements that occur earlier in it
FirstOccurrences(a) ==
    LET keep == {i \in DOMAIN a : \A j \in 1..(i - 1) : a[j] # a[i]}
        pos[n \in 0..Len(a)] ==
            IF n = 0 THEN <<>>
            ELSE IF n \in keep THEN Append(pos[n - 1], a[n]) ELSE pos[n - 1]
    IN  pos[Len(a)]

C10_DefaultLast ==
    Resolved =>
        /\ call.names # <<>>
        /\ call.names[Len(call.names)] = REST_API_TEMPLATE_DEFAULT_GROUP
        /\ \A i \in 1..Len(ReadGroups) :
               \E j \in 1..(Len(call.names) - 1) : call.names[j] = ReadGroups[i]

\* C10 witness: GROUPS lists DEFAULT first and a vendor group after it
C10_Witness ==
    /\ Resolved
    /\ ReadGroups = <<"DEFAULT", "AUTH">>
    /\ call.names = <<"DEFAULT", "AUTH", "DEFAULT">>

-----------------------------------------------------------------------------
(* The engine around the schema: the registry, the group resolver's        *)
(* lookup, the merge and the substitution.  The repository holds their     *)
(* declarations only (the parameter type of `perform`); these definitions  *)
(* follow the design of the engine, and use the definitions above for      *)
(* the group names and the schema.                                         *)

\* the command names; AUTH is a group name too
CommandNames == {"C1", "C2", "AUTH"}

\* the templates a command can be registered with
CommandTemplates(name) ==
    IF name = "C1"
    THEN {Obj("URI" :> Str(<<"c", "{", "x", "}", "{", "y", "}">>)),
          MkObj({<<"GROUPS", Arr(<<"AUTH">>, FALSE)>>,
                 <<"URI", Str(<<"s">>)>>,
                 <<"OPTS", Prim>>})}
    ELSE {MkObj({<<"URI", Str(<<"s">>)>>,
                 <<"HEADERS", Obj("K" :> Str(<<"f">>))>>})}

RegistryGroupNames == {"DEFAULT", "AUTH"}

\* the templates a group can be registered with
GroupTemplatesOf(name) ==
    IF name = "DEFAULT"
    THEN {MkObj({<<"HEADERS", Obj("K" :> Str(<<"{", "k", "}">>))>>,
                 <<"METHOD", Str(<<"G">>)>>}),
          MkObj({<<"TOKEN", Str(<<"{", "k", "}">>)>>,
                 <<"OPTS", Str(<<"o">>)>>})}
    ELSE {MkObj({<<"TOKEN", Str(<<"{", "t", "}">>)>>,
                 <<"OPTS", Obj("O" :> Str(<<"{", "y", "}">>))>>})}

\* the arguments of a composeRequest call: a value for some of the
\* variables; the value of x may itself hold placeholder text
ArgVars == {<<"x">>, <<"y">>, <<"k">>}

ArgsUniverse ==
    {[v \in S |-> IF v = <<"x">> /\ b THEN <<"{", "y", "}">> ELSE <<"v">>]
       : S \in SUBSET ArgVars, b \in BOOLEAN}

\* the arguments drawn where calls are repeated: none, or all variables
CallArgs == {a \in ArgsUniverse : DOMAIN a \in {{}, ArgVars}}

\* the most calls counted after the remembered composeRequest call
MaxBetween == 2

\* MergeValue with the group's value kept where both sides have the key
RECURSIVE MergeValue_GroupWins(_, _)
MergeValue_GroupWins(a, b) ==
    IF a.t = "obj" /\ b.t = "obj"
    THEN Obj([k \in Keys(a) \cup Keys(b) |->
                IF k \in Keys(a) /\ k \in Keys(b)
                THEN MergeValue_GroupWins(a.f[k], b.f[k])
                ELSE IF k \in Keys(a) THEN a.f[k] ELSE b.f[k]])
    ELSE b

\* a over b, leaf by leaf: a key-path of a keeps a's value, objects on both
\* sides are merged, and b contributes the key-paths a does not have
RECURSIVE MergeValue(_, _)
MergeValue(a, b) ==
    IF a.t = "obj" /\ b.t = "obj"
    THEN Obj([k \in Keys(a) \cup Keys(b) |->
                IF k \in Keys(a) /\ k \in Keys(b)
                THEN MergeValue(a.f[k], b.f[k])
                ELSE IF k \in Keys(a) THEN a.f[k] ELSE b.f[k]])
    ELSE a

\* the template over the group templates gs, the earlier group over the
\* later ones
RECURSIVE MergeOver(_, _)
MergeOver(T, gs) ==
    IF gs = <<>> THEN T ELSE MergeOver(MergeValue(T, Head(gs)), Tail(gs))

\* resolveGroupTemplates: the names of ExtractGroupNames that are not
\* registered, DEFAULT excepted
UnregisteredGroups(GroupTemplates, Template) ==
    LET names == ExtractGroupNames(Template)
    IN  {i \in DOMAIN names :
            /\ names[i] \notin DOMAIN GroupTemplates
            /\ names[i] # REST_API_TEMPLATE_DEFAULT_GROUP}

\* resolveGroupTemplates: the registered group templates in the order of
\* their names (an unregistered DEFAULT is skipped)
ResolveGroupTemplates(GroupTemplates, Template) ==
    LET names == SelectSeq(ExtractGroupNames(Template),
                           LAMBDA n : n \in DOMAIN GroupTemplates)
    IN  [i \in DOMAIN names |-> GroupTemplates[names[i]]]

\* the merged descriptor of a template, placeholders unresolved
ResolvedRequestDescriptor(GroupTemplates, Template) ==
    MergeOver(Template, ResolveGroupTemplates(GroupTemplates, Template))

\* SubstituteString scanning the value it has just inserted as well
RECURSIVE SubstituteString_Rescan(_, _)
SubstituteString_Rescan(s, args) ==
    LET p == IndexOf(s, SD, 1)
        q == IF p = 0 THEN 0 ELSE IndexOf(s, ED, p + 1)
    IN  IF p = 0 \/ q = 0 THEN s
        ELSE IF SubSeq(s, p + 1, q - 1) \in DOMAIN args
        THEN SubSeq(s, 1, p - 1)
               \o SubstituteString_Rescan(
                      args[SubSeq(s, p + 1, q - 1)]
                        \o SubSeq(s, q + 1, Len(s)), args)
        ELSE SubSeq(s, 1, q)
               \o SubstituteString_Rescan(SubSeq(s, q + 1, Len(s)), args)

\* s with every placeholder whose variable has a value in args replaced by
\* that value; the scan goes on after the placeholder, not into the value
RECURSIVE SubstituteString(_, _)
SubstituteString(s, args) ==
    LET p == IndexOf(s, SD, 1)
        q == IF p = 0 THEN 0 ELSE IndexOf(s, ED, p + 1)
    IN  IF p = 0 \/ q = 0 THEN s
        ELSE SubSeq(s, 1, p - 1)
               \o (IF SubSeq(s, p + 1, q - 1) \in DOMAIN args
                   THEN args[SubSeq(s, p + 1, q - 1)]
                   ELSE SubSeq(s, p, q))
               \o SubstituteString(SubSeq(s, q + 1, Len(s)), args)

\* SubstituteValue writing a scalar that is no string as text
RECURSIVE SubstituteValue_ScalarAsText(_, _)
SubstituteValue_ScalarAsText(v, args) ==
    IF v.t = "str" THEN Str(SubstituteString(v.s, args))
    ELSE IF v.t = "obj"
         THEN Obj([k \in Keys(v) |->
                     SubstituteValue_ScalarAsText(v.f[k], args)])
    ELSE IF v.t = "prim" THEN Str(<<"t", "r", "u", "e">>)
    ELSE v

\* v with the placeholders of every string leaf substituted
RECURSIVE SubstituteValue(_, _)
SubstituteValue(v, args) ==
    IF v.t = "str" THEN Str(SubstituteString(v.s, args))
    ELSE IF v.t = "obj"
         THEN Obj([k \in Keys(v) |-> SubstituteValue(v.f[k], args)])
    ELSE v

\* ComposeRequest naming only the first missing variable
ComposeRequest_FirstMissing(c, args) ==
    IF c \notin DOMAIN templates
    THEN [result |-> "NotFoundError", name |-> c]
    ELSE LET T == templates[c]
             lost == UnregisteredGroups(groupTemplates, T)
             schema == RestApiPerformFuncParams(templates, groupTemplates, c).args
             missing == {v \in schema : v \notin DOMAIN args}
             merged == ResolvedRequestDescriptor(groupTemplates, T)
         IN  IF lost # {}
             THEN [result |-> "NotFoundError",
                   name |-> ExtractGroupNames(T)[
                              CHOOSE i \in lost : \A j \in lost : i <= j]]
             ELSE IF missing # {}
             THEN [result |-> "MissingArgumentError",
                   missing |-> {CHOOSE v \in missing : TRUE}]
             ELSE [result |-> "ok", merged |-> merged,
                   descriptor |-> SubstituteValue(merged, args)]

\* ComposeRequest handing out the descriptor of the call before, when that
\* call succeeded
ComposeRequest_Stale(c, args) ==
    IF call.op = "composeRequest" /\ call.outcome.result = "ok"
    THEN call.outcome
    ELSE IF c \notin DOMAIN templates
    THEN [result |-> "NotFoundError", name |-> c]
    ELSE LET T == templates[c]
             lost == UnregisteredGroups(groupTemplates, T)
             schema == RestApiPerformFuncParams(templates, groupTemplates, c).args
             missing == {v \in schema : v \notin DOMAIN args}
             merged == ResolvedRequestDescriptor(groupTemplates, T)
         IN  IF lost # {}
             THEN [result |-> "NotFoundError",
                   name |-> ExtractGroupNames(T)[
                              CHOOSE i \in lost : \A j \in lost : i <= j]]
             ELSE IF missing # {}
             THEN [result |-> "MissingArgumentError", missing |-> missing]
             ELSE [result |-> "ok", merged |-> merged,
                   descriptor |-> SubstituteValue(merged, args)]

\* compose(commandName, args): the outcome of the call
ComposeRequest(c, args) ==
    IF c \notin DOMAIN templates
    THEN [result |-> "NotFoundError", name |-> c]
    ELSE LET T == templates[c]
             lost == UnregisteredGroups(groupTemplates, T)
             schema == RestApiPerformFuncParams(templates, groupTemplates, c).args
             missing == {v \in schema : v \notin DOMAIN args}
             merged == ResolvedRequestDescriptor(groupTemplates, T)
         IN  IF lost # {}
             THEN [result |-> "NotFoundError",
                   name |-> ExtractGroupNames(T)[
                              CHOOSE i \in lost : \A j \in lost : i <= j]]
             ELSE IF missing # {}
             THEN [result |-> "MissingArgumentError", missing |-> missing]
             ELSE [result |-> "ok", merged |-> merged,
                   descriptor |-> SubstituteValue(merged, args)]

\* RegisterCommand with a registered name taking the new template
RegisterCommand_Overwrite(name, template) ==
    /\ IF frozen
       THEN /\ call' = [op |-> "registerCommand", name |-> name,
                        result |-> "RegistryClosedError"]
            /\ UNCHANGED templates
       ELSE /\ templates' = [n \in DOMAIN templates \cup {name} |->
                               IF n = name THEN template ELSE templates[n]]
            /\ call' = [op |-> "registerCommand", name |-> name,
                        result |-> "ok"]
    /\ UNCHANGED <<groupTemplates, frozen, earlier, running>>

RegisterCommand(name, template) ==
    /\ IF frozen
       THEN /\ call' = [op |-> "registerCommand", name |-> name,
                        result |-> "RegistryClosedError"]
            /\ UNCHANGED templates
       ELSE IF name \in DOMAIN templates
       THEN /\ call' = [op |-> "registerCommand", name |-> name,
                        result |-> "DuplicateNameError"]
            /\ UNCHANGED templates
       ELSE /\ templates' = [n \in DOMAIN templates \cup {name} |->
                               IF n = name THEN template ELSE templates[n]]
            /\ call' = [op |-> "registerCommand", name |-> name,
                        result |-> "ok"]
    /\ UNCHANGED <<groupTemplates, frozen, earlier, running>>

\* RegisterGroup looking for the name before it looks at the freeze
RegisterGroup_DuplicateFirst(name, template) ==
    /\ IF name \in DOMAIN groupTemplates
       THEN /\ call' = [op |-> "registerGroup", name |-> name,
                        result |-> "DuplicateNameError"]
            /\ UNCHANGED groupTemplates
       ELSE IF frozen
       THEN /\ call' = [op |-> "registerGroup", name |-> name,
                        result |-> "RegistryClosedError"]
            /\ UNCHANGED groupTemplates
       ELSE /\ groupTemplates' =
                   [n \in DOMAIN groupTemplates \cup {name} |->
                      IF n = name THEN template ELSE groupTemplates[n]]
            /\ call' = [op |-> "registerGroup", name |-> name,
                        result |-> "ok"]
    /\ UNCHANGED <<templates, frozen, earlier, running>>

RegisterGroup(name, template) ==
    /\ IF frozen
       THEN /\ call' = [op |-> "registerGroup", name |-> name,
                        result |-> "RegistryClosedError"]
            /\ UNCHANGED groupTemplates
       ELSE IF name \in DOMAIN groupTemplates
       THEN /\ call' = [op |-> "registerGroup", name |-> name,
                        result |-> "DuplicateNameError"]
            /\ UNCHANGED groupTemplates
       ELSE /\ groupTemplates' =
                   [n \in DOMAIN groupTemplates \cup {name} |->
                      IF n = name THEN template ELSE groupTemplates[n]]
            /\ call' = [op |-> "registerGroup", name |-> name,
                        result |-> "ok"]
    /\ UNCHANGED <<templates, frozen, earlier, running>>

\* Freeze opening a frozen registry again
Freeze_Toggle ==
    /\ frozen' = ~frozen
    /\ call' = [op |-> "freeze", result |-> "ok", again |-> frozen]
    /\ UNCHANGED <<templates, groupTemplates, earlier, running>>

\* freeze(); `again` records that the registry was frozen already
Freeze ==
    /\ frozen' = TRUE
    /\ call' = [op |-> "freeze", result |-> "ok", again |-> frozen]
    /\ UNCHANGED <<templates, groupTemplates, earlier, running>>

\* getArgumentSchema answering from the schema it handed out for the
\* command before, whatever was registered since
SchemaDone_Stale(c) ==
    IF earlier.set /\ earlier.command = c
    THEN call' = [op |-> "getArgumentSchema", command |-> c,
                  hasArgs |-> earlier.args # {}, args |-> earlier.args]
    ELSE IF c \in DOMAIN templates
    THEN LET params == RestApiPerformFuncParams(templates, groupTemplates, c)
         IN  call' = [op |-> "getArgumentSchema", command |-> c,
                      hasArgs |-> params.hasArgs, args |-> params.args]
    ELSE call' = [op |-> "getArgumentSchema", command |-> c,
                  result |-> "NotFoundError", name |-> c]

\* getArgumentSchema(commandName): the outcome of the call
SchemaDone(c) ==
    IF c \in DOMAIN templates
    THEN LET params == RestApiPerformFuncParams(templates, groupTemplates, c)
         IN  call' = [op |-> "getArgumentSchema", command |-> c,
                      hasArgs |-> params.hasArgs, args |-> params.args]
    ELSE call' = [op |-> "getArgumentSchema", command |-> c,
                  result |-> "NotFoundError", name |-> c]

\* composeRequest(commandName, args): the outcome of the call
ComposeDone(c, args) ==
    call' = [op |-> "composeRequest", command |-> c, args |-> args,
             outcome |-> ComposeRequest(c, args)]

SchemaCall(c) ==
    /\ SchemaDone(c)
    /\ UNCHANGED <<templates, groupTemplates, frozen, earlier, running>>

ComposeCall(c, args) ==
    /\ ComposeDone(c, args)
    /\ UNCHANGED <<templates, groupTemplates, frozen, earlier, running>>

Init == /\ templates = <<>>
        /\ groupTemplates = <<>>
        /\ frozen = FALSE
        /\ call = [op |-> "none"]
        /\ earlier = [set |-> FALSE]
        /\ running = <<>>

Next ==
    \/ \E n \in CommandNames : \E t \in CommandTemplates(n) :
           RegisterCommand(n, t)
    \/ \E n \in RegistryGroupNames : \E t \in GroupTemplatesOf(n) :
           RegisterGroup(n, t)
    \/ Freeze
    \/ \E c \in CommandNames : SchemaCall(c)
    \/ \E c \in CommandNames : \E args \in ArgsUniverse : ComposeCall(c, args)

Spec == Init /\ [][Next]_vars

-----------------------------------------------------------------------------
(* Calls on one registry: the registry is any that registration can build  *)
(* and does not change; the history variable `earlier` remembers one       *)
(* composeRequest call and counts the calls made after it.                 *)

Registries(names, candidates(_)) ==
    UNION {{f \in [R -> UNION {candidates(n) : n \in R}] :
              \A n \in R : f[n] \in candidates(n)} : R \in SUBSET names}

InitCalls ==
    /\ templates \in Registries(CommandNames, CommandTemplates)
    /\ groupTemplates \in Registries(RegistryGroupNames, GroupTemplatesOf)
    /\ frozen = TRUE
    /\ call = [op |-> "none"]
    /\ earlier = [set |-> FALSE]
    /\ running = <<>>

\* one more call since the remembered one
Later(e) ==
    IF e.set /\ e.between < MaxBetween
    THEN [e EXCEPT !.between = e.between + 1] ELSE e

SchemaCallAfter(c) ==
    /\ SchemaDone(c)
    /\ earlier' = Later(earlier)
    /\ UNCHANGED <<templates, groupTemplates, frozen, running>>

\* the call is made, and the history keeps what it remembers
ComposeCallAfter(c, args) ==
    /\ ComposeDone(c, args)
    /\ earlier' = Later(earlier)
    /\ UNCHANGED <<templates, groupTemplates, frozen, running>>

\* the call is made, and the history remembers it
ComposeCallRemembered(c, args) ==
    /\ ~earlier.set
    /\ ComposeDone(c, args)
    /\ earlier' = [set |-> TRUE, command |-> c, args |-> args,
                   outcome |-> ComposeRequest(c, args), between |-> 0]
    /\ UNCHANGED <<templates, groupTemplates, frozen, running>>

NextCalls ==
    \/ \E c \in CommandNames : SchemaCallAfter(c)
    \/ \E c \in CommandNames : \E args \in CallArgs :
           ComposeCallAfter(c, args)
    \/ \E c \in CommandNames : \E args \in CallArgs :
           ComposeCallRemembered(c, args)

SpecCalls == InitCalls /\ [][NextCalls]_vars
-----------------------------------------------------------------------------
(* Properties of composeRequest.                                           *)

Composed == call.op = "composeRequest"

Succeeded == Composed /\ call.outcome.result = "ok"

\* the schema of the command of the last call
SchemaOfCall ==
    RestApiPerformFuncParams(templates, groupTemplates, call.command).args

\* C3: a composeRequest call on a registered command whose groups resolve
\* and whose arguments lack a schema variable fails with
\* MissingArgumentError, and the error names exactly the schema variables
\* that the arguments do not hold.
C3_MissingExactly ==
    /\ ( /\ Composed
         /\ call.command \in DOMAIN templates
         /\ UnregisteredGroups(groupTemplates, templates[call.command]) = {}
         /\ \E v \in SchemaOfCall : v \notin DOMAIN call.args )
       => call.outcome.result = "MissingArgumentError"
    /\ ( Composed /\ call.outcome.result = "MissingArgumentError" )
       => /\ call.outcome.missing # {}
          /\ \A v \in call.outcome.missing :
                 v \in SchemaOfCall /\ v \notin DOMAIN call.args
          /\ \A v \in SchemaOfCall :
                 v \notin DOMAIN call.args => v \in call.outcome.missing

\* C3 witness: x is supplied, y and k are not, and both are named
C3_Witness ==
    /\ Composed
    /\ DOMAIN call.args = {<<"x">>}
    /\ call.outcome.result = "MissingArgumentError"
    /\ call.outcome.missing = {<<"y">>, <<"k">>}

\* s holds a "{" with a "}" after it
HasPair(s) == \E i \in 1..Len(s) : \E j \in (i + 1)..Len(s) :
                  s[i] = "{" /\ s[j] = "}"

\* s holds no delimiter
Plain(s) == \A i \in 1..Len(s) : s[i] \notin {"{", "}"}

\* every "{" of s opens a placeholder, no "{" stands inside a placeholder
\* and every "}" closes one
WellFormed(s) ==
    /\ \A i \in 1..Len(s) : s[i] = "{" => OpensPlaceholder(s, i)
    /\ \A j \in 1..Len(s) : s[j] = "}" =>
           \E i \in 1..(j - 1) :
               /\ s[i] = "{"
               /\ \A m \in (i + 1)..(j - 1) : s[m] \notin {"{", "}"}

\* the string leaves of the object o
StringLeaves(o) ==
    {ValueAtKeyPath(o, p).s : p \in KeyPathsOfStringValues(o, <<>>)}

\* C4 as stated (its part on the returned value): a composeRequest call
\* returns a descriptor in which no placeholder is left, or fails and
\* returns no descriptor.  (The values supplied hold no delimiter and the
\* DEFAULT group is registered.)
C4_FullOrNothing ==
    ( /\ Composed
      /\ REST_API_TEMPLATE_DEFAULT_GROUP \in DOMAIN groupTemplates
      /\ \A v \in DOMAIN call.args : Plain(call.args[v]) ) =>
        \/ /\ call.outcome.result = "ok"
           /\ \A s \in StringLeaves(call.outcome.descriptor) : ~HasPair(s)
        \/ /\ call.outcome.result # "ok"
           /\ "descriptor" \notin DOMAIN call.outcome

\* C5 as stated: when the string leaves of the merged descriptor hold only
\* well-formed placeholders and the call succeeds, no string leaf of the
\* returned descriptor holds a "{" ... "}" pair.  (The values supplied
\* hold no delimiter and the DEFAULT group is registered.)
C5_NoPlaceholderLeft ==
    ( /\ Succeeded
      /\ REST_API_TEMPLATE_DEFAULT_GROUP \in DOMAIN groupTemplates
      /\ \A v \in DOMAIN call.args : Plain(call.args[v])
      /\ \A s \in StringLeaves(call.outcome.merged) : WellFormed(s) )
    => \A s \in StringLeaves(call.outcome.descriptor) : ~HasPair(s)

RECURSIVE KeyPathsOfLeaves(_, _)
KeyPathsOfLeaves(o, A) ==
    UNION { IF o.f[k].t = "obj" THEN KeyPathsOfLeaves(o.f[k], Append(A, k))
            ELSE {Append(A, k)}
          : k \in Keys(o) }

\* the group templates resolved for the command of the last call
GroupsOfCall ==
    ResolveGroupTemplates(groupTemplates, templates[call.command])

\* some group template of gs has the value v at the leaf key-path p
SomeGroupHas(gs, p, v) ==
    \E i \in DOMAIN gs : p \in KeyPathsOfLeaves(gs[i], <<>>)
                           /\ ValueAtKeyPath(gs[i], p) = v

\* the object h shadows the key-path p: it has a value at p, or a value
\* that is no object at a prefix of p
Shadows(h, p) ==
    \/ KeyPathExists(h, p)
    \/ \E n \in 1..(Len(p) - 1) :
          /\ KeyPathExists(h, SubSeq(p, 1, n))
          /\ ValueAtKeyPath(h, SubSeq(p, 1, n)).t # "obj"

\* every leaf key-path of the command template has the template's value in
\* the merged descriptor
TemplateKept ==
    LET T == templates[call.command]
    IN  \A p \in KeyPathsOfLeaves(T, <<>>) :
            ValueAtKeyPath(call.outcome.merged, p) = ValueAtKeyPath(T, p)

-----------------------------------------------------------------------------
(* Properties of the lookups.                                              *)

\* the name the last call could not find: the command when it is not
\* registered, else the first declared group that is not registered
\* (DEFAULT excepted); "" when every name is found
OffendingName ==
    IF call.command \notin DOMAIN templates THEN call.command
    ELSE LET T == templates[call.command]
             lost == UnregisteredGroups(groupTemplates, T)
         IN  IF lost = {} THEN ""
             ELSE ExtractGroupNames(T)[CHOOSE i \in lost :
                                          \A j \in lost : i <= j]

\* C11 as stated: a getArgumentSchema or composeRequest call whose command
\* is not registered, or whose command declares a group other than DEFAULT
\* that is not registered, fails with NotFoundError naming that name and
\* returns no schema and no descriptor.
C11_NotFoundNamed ==
    /\ (SchemaTaken /\ OffendingName # "") =>
          /\ "result" \in DOMAIN call
          /\ call.result = "NotFoundError"
          /\ call.name = OffendingName
          /\ "args" \notin DOMAIN call
    /\ (Composed /\ OffendingName # "") =>
          /\ call.outcome.result = "NotFoundError"
          /\ call.outcome.name = OffendingName
          /\ "descriptor" \notin DOMAIN call.outcome
\* C12 as stated: when no DEFAULT group is registered and every other
\* declared group is, getArgumentSchema goes on with the remaining groups:
\* the schema holds the variables of every string leaf of a resolved,
\* registered group that the command template does not shadow.
C12_DefaultSkipped ==
    ( /\ SchemaTaken
      /\ call.command \in DOMAIN templates
      /\ REST_API_TEMPLATE_DEFAULT_GROUP \notin DOMAIN groupTemplates
      /\ UnregisteredGroups(groupTemplates, templates[call.command]) = {} )
    => LET T == templates[call.command]
           names == Range(ExtractGroupNames(T)) \cap DOMAIN groupTemplates
       IN  /\ "args" \in DOMAIN call
           /\ \A n \in names :
                LeafVars(groupTemplates[n],
                         {p \in KeyPathsOfStringValues(groupTemplates[n], <<>>)
                            : ~Shadows(T, p)}) \subseteq call.args
-----------------------------------------------------------------------------
(* Properties of registration and freeze.                                  *)

\* the step is a registerCommand call made while the registry is open
RegisterCommandStep == call'.op = "registerCommand" /\ ~frozen

\* the step is a registerGroup call made while the registry is open
RegisterGroupStep == call'.op = "registerGroup" /\ ~frozen

\* C13: on an open registry, registerCommand with the name of a registered
\* command and registerGroup with the name of a registered group fail with
\* DuplicateNameError and leave every entry as it was; a name registered
\* in the other namespace only does not make the call fail.
C13_DuplicateNameRejected ==
    [][ /\ RegisterCommandStep =>
              IF call'.name \in DOMAIN templates
              THEN /\ call'.result = "DuplicateNameError"
                   /\ UNCHANGED <<templates, groupTemplates>>
              ELSE /\ call'.result = "ok"
                   /\ call'.name \in DOMAIN templates'
                   /\ \A n \in DOMAIN templates : templates'[n] = templates[n]
                   /\ UNCHANGED groupTemplates
        /\ RegisterGroupStep =>
              IF call'.name \in DOMAIN groupTemplates
              THEN /\ call'.result = "DuplicateNameError"
                   /\ UNCHANGED <<templates, groupTemplates>>
              ELSE /\ call'.result = "ok"
                   /\ call'.name \in DOMAIN groupTemplates'
                   /\ \A n \in DOMAIN groupTemplates :
                         groupTemplates'[n] = groupTemplates[n]
                   /\ UNCHANGED templates ]_vars

\* C13 witness: AUTH is a command and a group, and registering the command
\* AUTH again has failed
C13_Witness ==
    /\ call.op = "registerCommand"
    /\ call.name = "AUTH"
    /\ call.result = "DuplicateNameError"
    /\ "AUTH" \in DOMAIN templates
    /\ "AUTH" \in DOMAIN groupTemplates
    /\ ~frozen
\* C14: on a frozen registry every registerCommand and registerGroup call
\* fails with RegistryClosedError and registers nothing, whether its name
\* is registered or not.
C14_ClosedAfterFreeze ==
    [][ (frozen /\ call'.op \in {"registerCommand", "registerGroup"}) =>
            /\ call'.result = "RegistryClosedError"
            /\ UNCHANGED <<templates, groupTemplates>> ]_vars

\* C14 witness: registerGroup has failed on a frozen registry with a name
\* that is registered
C14_Witness ==
    /\ frozen
    /\ call.op = "registerGroup"
    /\ call.name \in DOMAIN groupTemplates
    /\ call.result = "RegistryClosedError"

\* C15: a frozen registry stays frozen and keeps its commands and groups
\* with their templates in every step, and a freeze() on a frozen registry
\* succeeds.
C15_FrozenForGood ==
    [][ frozen =>
            /\ frozen'
            /\ UNCHANGED <<templates, groupTemplates>>
            /\ call'.op = "freeze" => call'.result = "ok" ]_vars

\* C15 witness: freeze() has been called on a frozen registry that holds a
\* command and a group
C15_Witness ==
    /\ call.op = "freeze"
    /\ call.again
    /\ call.result = "ok"
    /\ frozen
    /\ templates # <<>>
    /\ groupTemplates # <<>>
-----------------------------------------------------------------------------
(* Properties of the arguments.                                            *)

\* args restricted to the names of S
Restrict(args, S) == [v \in DOMAIN args \cap S |-> args[v]]

\* C16 as stated: a composeRequest call has the outcome of the call with
\* its arguments restricted to the variables of the schema; arguments
\* beyond the schema make no error and no difference.  (The DEFAULT group
\* is registered.)
C16_ExtraArgsIgnored ==
    ( /\ Composed
      /\ call.command \in DOMAIN templates
      /\ REST_API_TEMPLATE_DEFAULT_GROUP \in DOMAIN groupTemplates ) =>
        call.outcome =
            ComposeRequest(call.command, Restrict(call.args, SchemaOfCall))
-----------------------------------------------------------------------------
(* Properties of the extraction.                                           *)

\* the variables of the string leaves of the registered group templates
GroupLeafVars ==
    UNION {LeafVars(groupTemplates[n],
                    KeyPathsOfStringValues(groupTemplates[n], <<>>))
             : n \in DOMAIN groupTemplates}

\* C17: the schema of a command holds the variables of the string leaves
\* of its template that at most RecursionLimit objects enclose (the
\* template being the first), and a variable found only in string leaves
\* that more objects enclose, and in no group template, is not in it.
C17_DepthLimit ==
    SchemaTaken =>
        LET T == templates[call.command]
            near == LeafVars(T, WithinDepth(T, RecursionLimit))
            all == LeafVars(T, KeyPathsOfStringValues(T, <<>>))
        IN  /\ near \subseteq call.args
            /\ \A v \in all \ (near \cup GroupLeafVars) : v \notin call.args

\* C17 witness: the placeholder {d} lies RecursionLimit + 1 objects deep and
\* is not in the schema, the variables of URI are
C17_Witness ==
    /\ SchemaTaken
    /\ LET T == templates[call.command]
       IN  /\ Prop(T, "N") = Chain(RecursionLimit, Str(<<"{", "d", "}">>))
           /\ Prop(T, "URI") = Str(<<"a", "{", "x", "}", "b", "{", "y", "}">>)
    /\ <<"d">> \notin call.args
    /\ {<<"x">>, <<"y">>} \subseteq call.args
\* the strings drawn for the extraction: at most MaxTokens pieces, each a
\* placeholder, a delimiter or a letter
MaxTokens == 4

Tokens == {<<"{", "a", "}">>, <<"{", "b", "}">>, <<"{">>, <<"}">>, <<"c">>}

RECURSIVE Concat(_)
Concat(ts) == IF ts = <<>> THEN <<>> ELSE Head(ts) \o Concat(Tail(ts))

Strings == {Concat(ts) : ts \in UNION {[1..k -> Tokens] : k \in 0..MaxTokens}}

\* one command whose template holds the string as its URI
InitStrings ==
    /\ templates \in {[c \in {"C1"} |-> Obj("URI" :> Str(S))] : S \in Strings}
    /\ groupTemplates = <<>>
    /\ frozen = TRUE
    /\ call = [op |-> "none"]
    /\ earlier = [set |-> FALSE]
    /\ running = <<>>

\* SubstringsFromString<S, "{", "}"> applied to the URI of the command
ExtractFromString(c) ==
    /\ call' = [op |-> "SubstringsFromString", S |-> templates[c].f.URI.s,
                vars |-> SubstringsFromString({templates[c].f.URI.s})]
    /\ UNCHANGED <<templates, groupTemplates, frozen, earlier, running>>

NextStrings == \E c \in DOMAIN templates : ExtractFromString(c)

SpecStrings == InitStrings /\ [][NextStrings]_vars

Extracted == call.op = "SubstringsFromString"

\* the positions of S that hold a "{" with no "}" after them
Unterminated(S) ==
    {i \in 1..Len(S) : S[i] = "{" /\ \A j \in (i + 1)..Len(S) : S[j] # "}"}

\* C18: when the string holds a "{" with no "}" after it, the extraction
\* returns the variables of the placeholders before the first such "{"
\* and nothing else: no variable for the unterminated placeholder.
C18_UnterminatedIgnored ==
    (Extracted /\ Unterminated(call.S) # {}) =>
        LET i == CHOOSE i \in Unterminated(call.S) :
                     \A j \in Unterminated(call.S) : i <= j
        IN  /\ call.vars = PlaceholderVars(SubSeq(call.S, 1, i - 1))
            /\ \A v \in call.vars :
                 \E p \in 1..(i - 1) :
                    SubSeq(call.S, p, p + Len(v) + 1) = <<"{">> \o v \o <<"}">>

\* C18 witness: {a} is returned, the unterminated "{c" after it gives
\* nothing
C18_Witness ==
    /\ Extracted
    /\ call.S = <<"{", "a", "}", "{", "c">>
    /\ call.vars = {<<"a">>}

\* C19: the extraction returns the variable of every placeholder of the
\* string, each once, and the empty set when the string has no
\* placeholder.
C19_EveryVariableOnce ==
    Extracted =>
        /\ call.vars = PlaceholderVars(call.S)
        /\ \A i \in 1..Len(call.S) : \A j \in (i + 1)..Len(call.S) :
             ( /\ OpensPlaceholder(call.S, i)
               /\ call.S[j] = "}"
               /\ \A m \in (i + 1)..(j - 1) : call.S[m] # "}" )
             => SubSeq(call.S, i + 1, j - 1) \in call.vars
        /\ (\A i \in 1..Len(call.S) : ~OpensPlaceholder(call.S, i))
             => call.vars = {}

\* C19 witness: three placeholders, the first variable twice
C19_Witness ==
    /\ Extracted
    /\ call.S = <<"{", "a", "}", "c", "{", "b", "}", "{", "a", "}">>
    /\ call.vars = {<<"a">>, <<"b">>}
-----------------------------------------------------------------------------
(* Properties of the keys passed through.                                  *)

\* the keys of a template that the engine knows; every other key is
\* vendor-specific
RecognizedKeys == {REST_API_TEMPLATE_GROUPS_KEY, "METHOD", "URI", "HEADERS"}

\* the leaf key-paths of the merged descriptor under a vendor-specific key
VendorLeaves ==
    {p \in KeyPathsOfLeaves(call.outcome.merged, <<>>) :
        p[1] \notin RecognizedKeys}

\* C20 as stated: every vendor-specific key of the descriptor returned has
\* the value it has in the merged descriptor.
C20_PassthroughUntouched ==
    Succeeded =>
        \A k \in Keys(call.outcome.merged) \ RecognizedKeys :
            call.outcome.descriptor.f[k] = call.outcome.merged.f[k]

\* C20 (amended): under a vendor-specific key the descriptor returned has
\* the leaf key-paths of the merged descriptor; a leaf that is no string,
\* or a string without a placeholder of a supplied variable, has the value
\* it has in the merged descriptor, and a string leaf with such a
\* placeholder is substituted like any other string leaf.
C20_PassthroughSubstitutedOnly ==
    Succeeded =>
        /\ {p \in KeyPathsOfLeaves(call.outcome.descriptor, <<>>) :
               p[1] \notin RecognizedKeys} = VendorLeaves
        /\ \A p \in VendorLeaves :
             LET m == ValueAtKeyPath(call.outcome.merged, p)
                 d == ValueAtKeyPath(call.outcome.descriptor, p)
             IN  IF m.t = "str"
                    /\ PlaceholderVars(m.s) \cap DOMAIN call.args # {}
                 THEN /\ d.t = "str"
                      /\ d.s = SubstituteString(m.s, call.args)
                 ELSE d = m

\* C20 witness: the vendor-specific TOKEN is substituted, the
\* vendor-specific OPTS is passed through
C20_Witness ==
    /\ Succeeded
    /\ "TOKEN" \in Keys(call.outcome.merged)
    /\ "OPTS" \in Keys(call.outcome.merged)
    /\ call.outcome.merged.f["TOKEN"] = Str(<<"{", "k", "}">>)
    /\ call.outcome.descriptor.f["TOKEN"] = Str(<<"v">>)
    /\ call.outcome.descriptor.f["OPTS"] = call.outcome.merged.f["OPTS"]
-----------------------------------------------------------------------------
(* Concurrent calls on a frozen registry.  A call takes three steps: the   *)
(* caller starts it, the engine copies the request into the storage the    *)
(* call works in, and the engine computes the outcome from that storage    *)
(* and the registry.  The steps of different callers interleave freely.    *)

MaxCallers == 2

Callers == 1..MaxCallers

\* WorkSlot with one storage for all calls
WorkSlot_Shared(i) == 1

\* the storage the call of caller i works in: its own
WorkSlot(i) == i

\* getArgumentSchema(commandName): the outcome of the call
GetSchema(c) ==
    IF c \in DOMAIN templates
    THEN [result |-> "ok",
          args |-> RestApiPerformFuncParams(templates, groupTemplates, c).args]
    ELSE [result |-> "NotFoundError", name |-> c]

\* the outcome of the request r when it runs alone
Alone(r) ==
    IF r.op = "composeRequest" THEN ComposeRequest(r.command, r.args)
    ELSE GetSchema(r.command)

\* the requests drawn: composeRequest with no or all arguments, and
\* getArgumentSchema, on a registered and on an unregistered command
Requests ==
    {[op |-> "composeRequest", command |-> c, args |-> a] :
        c \in {"C1", "AUTH"},
        a \in {a \in CallArgs : \A v \in DOMAIN a : Plain(a[v])}}
    \cup {[op |-> "getArgumentSchema", command |-> "C1", args |-> <<>>]}

\* the registry holds the command C1 and the group DEFAULT
InitCallers ==
    /\ templates \in {[c \in {"C1"} |-> t] : t \in CommandTemplates("C1")}
    /\ groupTemplates \in {[n \in {"DEFAULT"} |-> t]
                             : t \in GroupTemplatesOf("DEFAULT")}
    /\ frozen = TRUE
    /\ call = [op |-> "none"]
    /\ earlier = [set |-> FALSE]
    /\ running = [callers |-> [i \in Callers |-> [pc |-> "idle"]],
                  work |-> [i \in Callers |-> [op |-> "none"]]]

\* caller i issues the request r
StartCall(i, r) ==
    /\ running.callers[i].pc = "idle"
    /\ running' = [running EXCEPT
                     !.callers[i] = [pc |-> "started", request |-> r]]
    /\ UNCHANGED <<templates, groupTemplates, frozen, call, earlier>>

\* the engine copies the request of caller i into the storage of the call
ReadRequest(i) ==
    /\ running.callers[i].pc = "started"
    /\ running' = [running EXCEPT
                     !.callers[i].pc = "working",
                     !.work[WorkSlot(i)] = running.callers[i].request]
    /\ UNCHANGED <<templates, groupTemplates, frozen, call, earlier>>

\* the engine computes the outcome from the storage of the call and the
\* registry; `overlap` records that another call is in flight at that time
FinishCall(i) ==
    /\ running.callers[i].pc = "working"
    /\ running' = [running EXCEPT
                     !.callers[i] =
                        [pc |-> "done",
                         request |-> running.callers[i].request,
                         outcome |-> Alone(running.work[WorkSlot(i)]),
                         overlap |-> \E j \in Callers \ {i} :
                            running.callers[j].pc \in {"started", "working"}]]
    /\ UNCHANGED <<templates, groupTemplates, frozen, call, earlier>>

\* caller i takes the outcome
ReturnCall(i) ==
    /\ running.callers[i].pc = "done"
    /\ running' = [running EXCEPT !.callers[i] = [pc |-> "idle"],
                                  !.work[WorkSlot(i)] = [op |-> "none"]]
    /\ UNCHANGED <<templates, groupTemplates, frozen, call, earlier>>

NextCallers ==
    \/ \E i \in Callers : \E r \in Requests : StartCall(i, r)
    \/ \E i \in Callers : ReadRequest(i)
    \/ \E i \in Callers : FinishCall(i)
    \/ \E i \in Callers : ReturnCall(i)

SpecCallers == InitCallers /\ [][NextCallers]_vars

-----------------------------------------------------------------------------
(* UrlUtils.toQueryString.  A string is a sequence of characters; params   *)
(* is the sequence of its key-value pairs in the order they were written.  *)

Digits == <<"0", "1", "2", "3", "4", "5", "6", "7", "8", "9">>

\* Number.prototype.toString() of a natural number
RECURSIVE NumberToString(_)
NumberToString(n) ==
    IF n < 10 THEN <<Digits[n + 1]>>
    ELSE NumberToString(n \div 10) \o <<Digits[(n % 10) + 1]>>

\* params[key].toString() of a number, a boolean and a string
ValueToString(v) ==
    IF v.t = "num" THEN NumberToString(v.n)
    ELSE IF v.t = "bool"
         THEN (IF v.b THEN <<"t", "r", "u", "e">>
               ELSE <<"f", "a", "l", "s", "e">>)
    ELSE v.s

\* UrlEncodeChar with a space written as %20
UrlEncodeChar_Percent20(ch) ==
    IF ch = " " THEN <<"%", "2", "0">>
    ELSE IF ch = "&" THEN <<"%", "2", "6">>
    ELSE IF ch = "=" THEN <<"%", "3", "D">>
    ELSE IF ch = "+" THEN <<"%", "2", "B">>
    ELSE IF ch = "%" THEN <<"%", "2", "5">>
    ELSE IF ch = "?" THEN <<"%", "3", "F">>
    ELSE <<ch>>

\* URLSearchParams.toString() on one character: the
\* application/x-www-form-urlencoded serializer
UrlEncodeChar(ch) ==
    IF ch = " " THEN <<"+">>
    ELSE IF ch = "&" THEN <<"%", "2", "6">>
    ELSE IF ch = "=" THEN <<"%", "3", "D">>
    ELSE IF ch = "+" THEN <<"%", "2", "B">>
    ELSE IF ch = "%" THEN <<"%", "2", "5">>
    ELSE IF ch = "?" THEN <<"%", "3", "F">>
    ELSE <<ch>>

RECURSIVE UrlEncode(_)
UrlEncode(str) ==
    IF str = <<>> THEN <<>>
    ELSE UrlEncodeChar(Head(str)) \o UrlEncode(Tail(str))

\* the key is an integer index: digits, with no leading zero
IsIndexKey(k) ==
    /\ k # <<>>
    /\ \A i \in 1..Len(k) : \E d \in 1..10 : k[i] = Digits[d]
    /\ Len(k) > 1 => k[1] # "0"

\* the number an index key writes
RECURSIVE IndexOfKey(_)
IndexOfKey(k) ==
    IF k = <<>> THEN 0
    ELSE 10 * IndexOfKey(SubSeq(k, 1, Len(k) - 1))
           + ((CHOOSE d \in 1..10 : k[Len(k)] = Digits[d]) - 1)

\* the index keys of the pairs ps in ascending order
RECURSIVE SortedIndexKeys(_)
SortedIndexKeys(ks) ==
    IF ks = {} THEN <<>>
    ELSE LET k == CHOOSE k \in ks :
                     \A o \in ks : IndexOfKey(k) <= IndexOfKey(o)
         IN  <<k>> \o SortedIndexKeys(ks \ {k})

\* Object.keys(params): the index keys in ascending order, then the other
\* keys in the order they were written
ObjectKeys(params) ==
    LET written == [i \in DOMAIN params |-> params[i].key]
    IN  SortedIndexKeys({written[i] : i \in DOMAIN written}
                           \cap {k \in Range(written) : IsIndexKey(k)})
          \o SelectSeq(written, LAMBDA k : ~IsIndexKey(k))

\* params[key]
ValueOf(params, key) ==
    params[CHOOSE i \in DOMAIN params : params[i].key = key].value

\* URLSearchParams.toString() of the pairs appended for the keys ks
RECURSIVE SearchParamsToString(_, _)
SearchParamsToString(params, ks) ==
    IF ks = <<>> THEN <<>>
    ELSE UrlEncode(Head(ks)) \o <<"=">>
           \o UrlEncode(ValueToString(ValueOf(params, Head(ks))))
           \o (IF Len(ks) > 1 THEN <<"&">> ELSE <<>>)
           \o SearchParamsToString(params, Tail(ks))

\* toQueryString returning the empty string for no keys
toQueryString_BareWhenEmpty(params) ==
    IF params = <<>> THEN <<>>
    ELSE <<"?">> \o SearchParamsToString(params, ObjectKeys(params))

toQueryString(params) ==
    <<"?">> \o SearchParamsToString(params, ObjectKeys(params))
\* the most key-value pairs of a params object
MaxParams == 3

QueryKeys == {<<"a">>, <<"b">>, <<"c", " ", "d">>, <<"1">>, <<"0">>}

QueryValues ==
    {[t |-> "num", n |-> 3], [t |-> "num", n |-> 10], [t |-> "bool", b |-> TRUE],
     [t |-> "str",
      s |-> <<"T", "e", "s", "t", " ", "S", "t", "r", "i", "n", "g">>],
     [t |-> "str", s |-> <<"&", "=", "+">>]}

\* the params objects: at most MaxParams pairs, no key twice
QueryParams ==
    UNION {{ps \in [1..n -> [key : QueryKeys, value : QueryValues]] :
              \A i \in 1..n : \A j \in 1..n :
                  i # j => ps[i].key # ps[j].key}
             : n \in 0..MaxParams}

\* toQueryString has been called with some params object
InitQuery ==
    /\ templates = <<>>
    /\ groupTemplates = <<>>
    /\ frozen = FALSE
    /\ call \in {[op |-> "toQueryString", pc |-> "called", params |-> ps,
                  result |-> <<>>] : ps \in QueryParams}
    /\ earlier = [set |-> FALSE]
    /\ running = <<>>

\* the call returns
ToQueryString ==
    /\ call.pc = "called"
    /\ call' = [call EXCEPT !.pc = "done",
                            !.result = toQueryString(call.params)]
    /\ UNCHANGED <<templates, groupTemplates, frozen, earlier, running>>

NextQuery == ToQueryString

SpecQuery == InitQuery /\ [][NextQuery]_vars

Queried == call.op = "toQueryString" /\ call.pc = "done"

\* C22: the result of toQueryString starts with "?", and is "?" alone when
\* params has no keys.
C22_StartsWithQuestionMark ==
    Queried =>
        /\ Len(call.result) >= 1
        /\ call.result[1] = "?"
        /\ call.params = <<>> => call.result = <<"?">>
        /\ call.params # <<>> => Len(call.result) > 1

\* C22 witness: toQueryString({}) is "?"
C22_Witness ==
    /\ Queried
    /\ call.params = <<>>
    /\ call.result = <<"?">>

\* the pieces of str between the separators sep
RECURSIVE SplitAt(_, _)
SplitAt(str, sep) ==
    LET hits == {i \in 1..Len(str) : str[i] = sep}
    IN  IF hits = {} THEN <<str>>
        ELSE LET i == CHOOSE i \in hits : \A j \in hits : i <= j
             IN  <<SubSeq(str, 1, i - 1)>>
                   \o SplitAt(SubSeq(str, i + 1, Len(str)), sep)

\* the character a percent escape stands for
Unescape(h) ==
    IF h = <<"2", "0">> THEN " "
    ELSE IF h = <<"2", "6">> THEN "&"
    ELSE IF h = <<"3", "D">> THEN "="
    ELSE IF h = <<"2", "B">> THEN "+"
    ELSE IF h = <<"2", "5">> THEN "%"
    ELSE "?"

\* the text a URL-encoded string stands for
RECURSIVE UrlDecode(_)
UrlDecode(str) ==
    IF str = <<>> THEN <<>>
    ELSE IF Head(str) = "+" THEN <<" ">> \o UrlDecode(Tail(str))
    ELSE IF Head(str) = "%" /\ Len(str) >= 3
         THEN <<Unescape(SubSeq(str, 2, 3))>>
                \o UrlDecode(SubSeq(str, 4, Len(str)))
    ELSE <<Head(str)>> \o UrlDecode(Tail(str))

\* the number of positions of str that hold ch
Occurrences(str, ch) == Cardinality({i \in 1..Len(str) : str[i] = ch})

\* C23: after the "?", the result of toQueryString holds one key=value
\* pair for each key of params, joined by "&", in the order of the keys of
\* the object; the value of a pair is the URL-encoded toString() of the
\* value of its key, with "+" for every space.
C23_OnePairPerKey ==
    (Queried /\ call.params # <<>>) =>
        LET pairs == SplitAt(Tail(call.result), "&")
            keys == ObjectKeys(call.params)
        IN  /\ Len(pairs) = Len(call.params)
            /\ \A i \in 1..Len(pairs) :
                 LET kv == SplitAt(pairs[i], "=")
                     text == ValueToString(ValueOf(call.params, keys[i]))
                 IN  /\ Len(kv) = 2
                     /\ UrlDecode(kv[1]) = keys[i]
                     /\ UrlDecode(kv[2]) = text
                     /\ Occurrences(kv[2], " ") = 0
                     /\ Occurrences(kv[2], "+") = Occurrences(text, " ")

\* C23 witness: the query of the test, "?a=3&b=true&c+d=Test+String"
C23_Witness ==
    /\ Queried
    /\ Len(call.params) = 3
    /\ call.params[1] = [key |-> <<"a">>, value |-> [t |-> "num", n |-> 3]]
    /\ call.params[2] = [key |-> <<"b">>, value |-> [t |-> "bool", b |-> TRUE]]
    /\ call.params[3].key = <<"c", " ", "d">>
    /\ call.params[3].value.t = "str"
    /\ call.result =
         <<"?", "a", "=", "3", "&", "b", "=", "t", "r", "u", "e", "&",
           "c", "+", "d", "=", "T", "e", "s", "t", "+", "S", "t", "r", "i",
           "n", "g">>
-----------------------------------------------------------------------------
(* Properties of the schema of a command with its groups.                  *)

\* the key-path p resolves inside the template T: every key but the last
\* to an object, the last to a scalar or an object
Overridden(T, p) ==
    /\ \A n \in 1..(Len(p) - 1) : ValueAtKeyPath(T, SubSeq(p, 1, n)).t = "obj"
    /\ ValueAtKeyPath(T, p).t \in {"str", "prim", "obj"}

\* the group templates that apply to the command of the last call, when
\* every resolved name, DEFAULT included, is registered
AppliedGroups ==
    LET names == Range(ExtractGroupNames(templates[call.command]))
    IN  IF names \subseteq DOMAIN groupTemplates
        THEN {groupTemplates[n] : n \in names} ELSE {}

\* C24 as stated: for every string leaf of an applied group template, the
\* variables of the leaf are in the schema when its key-path falls off the
\* command template, and a variable found only in leaves whose key-path
\* resolves inside the command template is not in the schema.
C24_OverrideRule ==
    SchemaTaken =>
        LET T == templates[call.command]
            live == UNION {LeafVars(g, {p \in KeyPathsOfStringValues(g, <<>>)
                                          : ~Overridden(T, p)})
                             : g \in AppliedGroups}
            dead == UNION {LeafVars(g, {p \in KeyPathsOfStringValues(g, <<>>)
                                          : Overridden(T, p)})
                             : g \in AppliedGroups}
            own == LeafVars(T, KeyPathsOfStringValues(T, <<>>))
        IN  /\ live \subseteq call.args
            /\ \A v \in dead \ (live \cup own) : v \notin call.args
\* group templates with a string leaf at the depths around the limit: the
\* DEFAULT group holds {g} under a key-path of d keys
InitGroupDepth ==
    /\ templates \in {[c \in {"C1"} |-> t] : t \in SchemaTemplates}
    /\ groupTemplates \in
         {[n \in {"DEFAULT"} |->
              MkObj({<<"N", Chain(d - 1, Str(<<"{", "g", "}">>))>>,
                     <<"URI", u>>})]
            : d \in (RecursionLimit - 1)..MaxDepth,
              u \in {Absent, Str(<<"{", "u", "}">>)}}
    /\ frozen = TRUE
    /\ call = [op |-> "none"]
    /\ earlier = [set |-> FALSE]
    /\ running = <<>>

SpecGroupDepth == InitGroupDepth /\ [][NextSchema]_vars

\* C25 as stated: a variable found only in string leaves of an applied
\* group template that more than RecursionLimit objects enclose is not in
\* the schema.
C25_GroupDepthLimit ==
    SchemaTaken =>
        LET T == templates[call.command]
            near == UNION {LeafVars(g, WithinDepth(g, RecursionLimit))
                             : g \in AppliedGroups}
            all == UNION {LeafVars(g, KeyPathsOfStringValues(g, <<>>))
                            : g \in AppliedGroups}
            own == LeafVars(T, KeyPathsOfStringValues(T, <<>>))
        IN  \A v \in all \ (near \cup own) : v \notin call.args
\* C26 as stated: every variable of a placeholder in a string leaf of the
\* merged descriptor of a successful composeRequest call is in the schema
\* of the command, so that no string leaf of the descriptor returned holds
\* a placeholder of the merged descriptor still.  (The DEFAULT group is
\* registered.)
C26_MergedVarsInSchema ==
    ( Succeeded /\ REST_API_TEMPLATE_DEFAULT_GROUP \in DOMAIN groupTemplates ) =>
        /\ \A s \in StringLeaves(call.outcome.merged) :
               PlaceholderVars(s) \subseteq SchemaOfCall
        /\ \A p \in KeyPathsOfStringValues(call.outcome.merged, <<>>) :
               LET s == ValueAtKeyPath(call.outcome.merged, p).s
               IN  PlaceholderVars(s) # {} =>
                       ValueAtKeyPath(call.outcome.descriptor, p).s # s
\* the variables the schema of the command of the last call may hold: those
\* of the string leaves of the command template and of the string leaves of
\* the applied group templates that the command template does not override
LiveVars ==
    LET T == templates[call.command]
    IN  LeafVars(T, KeyPathsOfStringValues(T, <<>>))
          \cup UNION {LeafVars(g, {p \in KeyPathsOfStringValues(g, <<>>)
                                     : ~Overridden(T, p)})
                        : g \in AppliedGroups}

\* the merged descriptor of the command of the last call
MergedOfCall ==
    ResolvedRequestDescriptor(groupTemplates, templates[call.command])

\* C27 as stated: every variable of the schema that getArgumentSchema
\* returns for a command occurs in a placeholder of a string leaf of the
\* merged descriptor of the command.
C27_NoDeadPlaceholder ==
    ( SchemaTaken /\ call.command \in DOMAIN templates ) =>
        \A v \in call.args :
            \E s \in StringLeaves(MergedOfCall) : v \in PlaceholderVars(s)

\* C27 (amended): every variable of the schema of a command occurs in a
\* placeholder of a string leaf of the command template, or of a string
\* leaf of an applied group template that the command template does not
\* override; the merge may drop that group leaf all the same.
C27_SchemaVarsFromLeaves ==
    ( /\ call.op \in {"composeRequest", "getArgumentSchema"}
      /\ call.command \in DOMAIN templates )
    => SchemaOfCall \subseteq LiveVars

\* C27 witness: the schema of C1 holds y for OPTS.O of AUTH and both k and
\* t for TOKEN; the merged descriptor keeps the scalar OPTS of the command
\* template, and one TOKEN
C27_Witness ==
    /\ SchemaTaken
    /\ call.command = "C1"
    /\ call.command \in DOMAIN templates
    /\ call.args = {<<"y">>, <<"k">>, <<"t">>}
    /\ ValueAtKeyPath(MergedOfCall, <<"OPTS">>) = Prim
    /\ \A s \in StringLeaves(MergedOfCall) :
           PlaceholderVars(s) \cap {<<"y">>, <<"k">>} = {}
-----------------------------------------------------------------------------
(* Schemas across registrations: registration goes on between the calls,   *)
(* and the history variable `earlier` remembers the first schema that      *)
(* getArgumentSchema handed out.                                           *)

\* the first getArgumentSchema call on a registered command, remembered
SchemaCallFirst(c) ==
    /\ ~earlier.set
    /\ c \in DOMAIN templates
    /\ SchemaDone(c)
    /\ earlier' = [set |-> TRUE, command |-> c, args |-> call'.args]
    /\ UNCHANGED <<templates, groupTemplates, frozen, running>>

NextRegistrations ==
    \/ \E n \in CommandNames : \E t \in CommandTemplates(n) :
           RegisterCommand(n, t)
    \/ \E n \in RegistryGroupNames : \E t \in GroupTemplatesOf(n) :
           RegisterGroup(n, t)
    \/ Freeze
    \/ \E c \in CommandNames : SchemaCallFirst(c)
    \/ \E c \in CommandNames : SchemaCall(c)
    \/ \E c \in CommandNames : \E args \in CallArgs : ComposeCall(c, args)

SpecRegistrations == Init /\ [][NextRegistrations]_vars

-----------------------------------------------------------------------------
(* Substitution, placeholder by placeholder.                               *)

\* what position i of s becomes: the value of the variable where i opens a
\* placeholder whose variable has a value, nothing where i lies inside
\* such a placeholder, and the character of s elsewhere
Replaced(s, i, args) ==
    LET opens == {p \in 1..i : OpensPlaceholder(s, p)
                                 /\ IndexOf(s, ED, p + 1) >= i}
    IN  IF opens = {} THEN <<s[i]>>
        ELSE LET p == CHOOSE p \in opens : TRUE
                 v == SubSeq(s, p + 1, IndexOf(s, ED, p + 1) - 1)
             IN  IF v \notin DOMAIN args THEN <<s[i]>>
                 ELSE IF i = p THEN args[v] ELSE <<>>

\* all placeholders of s replaced at once
ReplacedAtOnce(s, args) == Concat([i \in 1..Len(s) |-> Replaced(s, i, args)])

\* C29: each string leaf of the descriptor that composeRequest returns is
\* the leaf of the merged descriptor with every placeholder replaced, all
\* at once, by the value supplied for its own variable: a value that holds
\* placeholder text is inserted as it is and not replaced in turn.
C29_ReplacedOnceLiterally ==
    Succeeded =>
        \A p \in KeyPathsOfStringValues(call.outcome.merged, <<>>) :
            ValueAtKeyPath(call.outcome.descriptor, p) =
                Str(ReplacedAtOnce(ValueAtKeyPath(call.outcome.merged, p).s,
                                   call.args))

\* C29 witness: the value of x is the text {y}, and y has a value too
C29_Witness ==
    /\ Succeeded
    /\ <<"y">> \in DOMAIN call.args
    /\ <<"x">> \in DOMAIN call.args
    /\ call.args[<<"x">>] = <<"{", "y", "}">>
    /\ ValueAtKeyPath(call.outcome.merged, <<"URI">>)
         = Str(<<"c", "{", "x", "}", "{", "y", "}">>)
    /\ ValueAtKeyPath(call.outcome.descriptor, <<"URI">>)
         = Str(<<"c", "{", "y", "}", "v">>)
-----------------------------------------------------------------------------
(* The pairing of the delimiters.                                          *)

\* the names a scan of S from position i finds: the first "{" at or after
\* i is paired with the nearest "}" after it, the text between them is a
\* name, and the scan goes on after that "}"
RECURSIVE ScanFrom(_, _)
ScanFrom(S, i) ==
    LET p == IndexOf(S, SD, i)
        q == IF p = 0 THEN 0 ELSE IndexOf(S, ED, p + 1)
    IN  IF p = 0 \/ q = 0 THEN {}
        ELSE {SubSeq(S, p + 1, q - 1)} \cup ScanFrom(S, q + 1)

\* C30: the extraction returns the names that a left-to-right scan of the
\* string finds, each "{" paired with the nearest "}" after it: a "{"
\* inside a pair belongs to the name, "{}" gives the empty name, and a "}"
\* before any "{" is passed over.
C30_NearestClosing ==
    Extracted =>
        /\ call.vars = ScanFrom(call.S, 1)
        /\ ( Len(call.S) >= 2 /\ SubSeq(call.S, 1, 2) = <<"{", "}">> )
           => <<>> \in call.vars
        /\ ( call.S # <<>> /\ Head(call.S) = "}" )
           => call.vars = ScanFrom(Tail(call.S), 1)

\* C30 witness: "}{c{b}" gives the one name "c{b"
C30_Witness ==
    /\ Extracted
    /\ call.S = <<"}", "{", "c", "{", "b", "}">>
    /\ call.vars = {<<"c", "{", "b">>}
====
